---------------------------- MODULE Spec2Model ----------------------------
(***************************************************************************)
(* Model of overlay-rs: the #[overlay] attribute macro                     *)
(* (overlay_macro/src/lib.rs), the accessors it generates over a           *)
(* byte-array newtype, and the Overlay cast trait (overlay/src/lib.rs).    *)
(*                                                                         *)
(* A u32 is modelled as the set of its set bit positions (a subset of      *)
(* 0..31): shifts drop the positions that leave the word, `as u8` keeps    *)
(* positions 0..7.  Bytes of the buffer are integers 0..255.               *)
(***************************************************************************)
EXTENDS Integers, Sequences, FiniteSets, TLC

(***************************************************************************)
(* Bounds of the model.                                                    *)
(***************************************************************************)
\* field start bytes explored: 0..MaxStartByte
MaxStartByte == 1
\* bytes of the caller's buffer beyond the record's BYTE_LEN
Slack == 1
\* fields of a struct whose record length is computed
MaxFields == 2
\* byte indices 0..MaxByteIndex of those fields
MaxByteIndex == 2

(***************************************************************************)
(* u32 / u8 arithmetic of the generated code.                              *)
(***************************************************************************)
\* width of the accumulator `0_u32` of getter_body and of the setter mask
U32Bits == 32

U32Pos == 0 .. (U32Bits - 1)

\* x << n on u32
Shl(x, n) == {i + n : i \in x} \cap U32Pos

\* x >> n on u32
Shr(x, n) == {i - n : i \in {j \in x : j >= n}}

\* !x on u32
Not32(x) == U32Pos \ x

\* `b as u32` for a byte b
ByteAsU32(b) == {i \in 0 .. 7 : (b \div (2 ^ i)) % 2 = 1}

RECURSIVE BitsToInt(_, _)
BitsToInt(x, i) ==
    IF i < 0 THEN 0
    ELSE (IF i \in x THEN 2 ^ i ELSE 0) + BitsToInt(x, i - 1)

\* `x as u8` for a u32 x
AsU8(x) == BitsToInt(x, 7)

\* `x as uN`: keeps the low n bits
AsBits(x, n) == x \cap (0 .. (n - 1))


(***************************************************************************)
(* The attribute of one field, as parsed (OverlayAttribute, SingleOrRange). *)
(***************************************************************************)
Single(x) == [tag |-> "Single", start |-> x, end |-> x]

\* start..end, end exclusive
Range(a, b) == [tag |-> "Range", start |-> a, end |-> b]

\* start..=end
RangeIncl(a, b) == [tag |-> "RangeIncl", start |-> a, end |-> b]

\* Option::None for `bits`
NoBits == [tag |-> "None", start |-> 0, end |-> 0]

\* SingleOrRange::assert_range_valid: FALSE where the assert! panics
assert_range_valid(r) ==
    CASE r.tag = "Single" -> TRUE
      [] r.tag = "Range" -> r.start < r.end
      [] r.tag = "RangeIncl" -> r.start <= r.end

\* end_inclusive that takes the end of an exclusive range as included
end_inclusive_excl_as_incl(r) ==
    CASE r.tag = "Single" -> r.start
      [] r.tag = "Range" -> r.end
      [] r.tag = "RangeIncl" -> r.end

\* SingleOrRange::end_inclusive
end_inclusive(r) ==
    CASE r.tag = "Single" -> r.start
      [] r.tag = "Range" -> r.end - 1
      [] r.tag = "RangeIncl" -> r.end

\* SingleOrRange::start
start(r) == r.start

\* SingleOrRange::len
len(r) == end_inclusive(r) - start(r) + 1

IntegerTypeNames ==
    {"u8", "i8", "u16", "i16", "u32", "i32", "u64", "i64", "u128", "i128",
     "usize", "isize"}

\* match_type: the FieldTy of a field's declared type, "None" when unsupported.
\* A type is its last path segment; "[u8]" stands for an array [u8; N] of a
\* length that does not matter, "[u8; 1]" .. "[u8; 3]" for the arrays of
\* these lengths, "[T]" for an array of anything else, "()" for a type that
\* is neither.
match_type(ty) ==
    CASE ty \in IntegerTypeNames -> "Integer"
      [] ty = "bool" -> "Bool"
      [] ty \in {"[u8]", "[u8; 1]", "[u8; 2]", "[u8; 3]"} -> "ByteArray"
      [] ty \in {"[T]", "()"} -> "None"
      [] OTHER -> "Enum"

Panic(msg) == [panic |-> TRUE, msg |-> msg]

Accessor(kind, sb, eb, sbit, ebit, ty, repr) ==
    [panic |-> FALSE, kind |-> kind, start_byte |-> sb, end_byte |-> eb,
     start_bit |-> sbit, end_bit |-> ebit, ty |-> ty, enum_repr |-> repr]

\* FieldTy::Bool arm: the bit of the accessor pair
ExpandBool(d) ==
    LET start_byte == start(d.byte)
        end_byte == end_inclusive(d.byte)
    IN  IF d.bits.tag = "None"
        THEN Accessor("Bool", start_byte, end_byte, 0, 0, d.ty, 0)
        ELSE IF end_inclusive(d.bits) # start(d.bits)
        THEN Panic("Bit range for a bool must be a single number")
        ELSE Accessor("Bool", start_byte, end_byte, start(d.bits),
                      start(d.bits), d.ty, 0)

\* FieldTy::Integer | FieldTy::Enum arm: bit limits, the limit check and
\* the representation an Enum is converted from
ExpandIntEnum(d, field_ty) ==
    LET start_byte == start(d.byte)
        end_byte == end_inclusive(d.byte)
        lim == <<0, len(d.byte) * 8 - 1>>
        start_bit == IF d.bits.tag = "None" THEN lim[1] ELSE start(d.bits)
        end_bit == IF d.bits.tag = "None" THEN lim[2]
                   ELSE end_inclusive(d.bits)
        size == end_byte - start_byte + 1
    IN  IF start_bit > lim[2] \/ end_bit > lim[2]
        THEN Panic("start and end bits must be inside the byte-range")
        ELSE IF field_ty = "Enum"
        THEN IF size \in {1, 2, 4, 8}
             THEN Accessor("Enum", start_byte, end_byte, start_bit, end_bit,
                           d.ty, size * 8)
             ELSE Panic("can't determine size of field for enum")
        ELSE Accessor("Integer", start_byte, end_byte, start_bit, end_bit,
                      d.ty, 0)

\* ExpandField without the two assertions on the bits of a nested field
\* and of a byte array
ExpandFieldBitsUnchecked(d) ==
    IF ~assert_range_valid(d.byte)
    THEN Panic("start byte must not be greater than end byte")
    ELSE IF d.bits.tag # "None" /\ ~assert_range_valid(d.bits)
    THEN Panic("start bit must not be greater than end bit")
    ELSE LET field_ty == IF d.nested THEN "Struct" ELSE match_type(d.ty)
         IN  CASE field_ty = "None" -> Panic("invalid field type")
               [] field_ty = "Bool" -> ExpandBool(d)
               [] field_ty \in {"Integer", "Enum"} -> ExpandIntEnum(d, field_ty)
               [] field_ty \in {"Struct", "ByteArray"} ->
                    Accessor(field_ty, start(d.byte), end_inclusive(d.byte),
                             0, 0, d.ty, 0)

\* One iteration of the macro's loop over the fields, for a field that
\* carries an #[overlay(...)] attribute d = [byte, bits, nested, ty]:
\* a panic, or the parameters of the accessor pair it generates.
ExpandField(d) ==
    IF ~assert_range_valid(d.byte)
    THEN Panic("start byte must not be greater than end byte")
    ELSE IF d.bits.tag # "None" /\ ~assert_range_valid(d.bits)
    THEN Panic("start bit must not be greater than end bit")
    ELSE IF d.bits.tag # "None" /\ d.nested
    THEN Panic("cannot have a nested struct at a bit-offset")
    ELSE LET field_ty == IF d.nested THEN "Struct" ELSE match_type(d.ty)
         IN  CASE field_ty = "None" -> Panic("invalid field type")
               [] field_ty = "Bool" -> ExpandBool(d)
               [] field_ty \in {"Integer", "Enum"} -> ExpandIntEnum(d, field_ty)
               [] field_ty = "Struct" ->
                    Accessor("Struct", start(d.byte), end_inclusive(d.byte),
                             0, 0, d.ty, 0)
               [] field_ty = "ByteArray" ->
                    IF d.bits.tag # "None"
                    THEN Panic("byte arrays cannot have a bit-range")
                    ELSE Accessor("ByteArray", start(d.byte),
                                  end_inclusive(d.byte), 0, 0, d.ty, 0)


(***************************************************************************)
(* The generated accessors.  `self.0[i]` of a view at offset base of the   *)
(* storage is bytes[base + i + 1] (sequences count from 1).                *)
(***************************************************************************)
Self0(bytes, base, i) == bytes[base + i + 1]

\* value <<= 8; value |= self.0[i] as u32, for i in start_byte..=end_byte
RECURSIVE Accumulate(_, _, _, _, _)
Accumulate(bytes, base, i, end_byte, value) ==
    IF i > end_byte THEN value
    ELSE Accumulate(bytes, base, i + 1, end_byte,
                    Shl(value, 8) \cup ByteAsU32(Self0(bytes, base, i)))

\* getter_body: the u32 `value` after the mask and the shift
getter_body(bytes, base, f) ==
    LET value == Accumulate(bytes, base, f.start_byte, f.end_byte, {})
        masked == IF f.end_bit > 0
                  THEN value \cap Shr(U32Pos, 31 - f.end_bit)
                  ELSE value
    IN  Shr(masked, f.start_bit)

\* bit width of an integer type (the width `value as _` narrows to)
TyBits(ty) ==
    CASE ty \in {"u8", "i8"} -> 8
      [] ty \in {"u16", "i16"} -> 16
      [] ty \in {"u32", "i32"} -> 32
      [] OTHER -> 64

\* The enum E of the tests and its TryFrom<u8/u16/...>: 0 => X, 1 => Y, 2 => Z
try_from(v) ==
    CASE v = {} -> [tag |-> "Ok", val |-> "X"]
      [] v = {0} -> [tag |-> "Ok", val |-> "Y"]
      [] v = {1} -> [tag |-> "Ok", val |-> "Z"]
      [] OTHER -> [tag |-> "Err", val |-> "()"]

\* `val as u32` for a symbol of E: its discriminant
EnumAsU32(e) ==
    CASE e = "X" -> {}
      [] e = "Y" -> {0}
      [] e = "Z" -> {1}

\* the Integer getter: `value as _`
IntegerGetter(bytes, base, f) ==
    [tag |-> "Int", val |-> AsBits(getter_body(bytes, base, f), TyBits(f.ty))]

\* the Enum getter: `#ty::try_from(value as #enum_repr)`
EnumGetter(bytes, base, f) ==
    try_from(AsBits(getter_body(bytes, base, f), f.enum_repr))

\* SetterMask with the end mask one bit short (`32 - end_bit` for
\* `31 - end_bit`)
SetterMaskShort(f) ==
    LET mask == Shl(U32Pos, f.start_bit)
    IN  IF f.end_bit > 0 THEN mask \cap Shr(U32Pos, 32 - f.end_bit) ELSE mask

\* the setter's mask
SetterMask(f) ==
    LET mask == Shl(U32Pos, f.start_bit)
    IN  IF f.end_bit > 0 THEN mask \cap Shr(U32Pos, 31 - f.end_bit) ELSE mask

\* self.0[i] = self.0[i] & (!mask as u8) | (new as u8); new >>= 8; mask >>= 8,
\* for i in (start_byte..=end_byte).rev()
RECURSIVE StoreLoop(_, _, _, _, _, _)
StoreLoop(bytes, base, i, start_byte, new, mask) ==
    IF i < start_byte THEN bytes
    ELSE LET old == ByteAsU32(Self0(bytes, base, i))
             byte == AsU8((old \cap AsBits(Not32(mask), 8)) \cup AsBits(new, 8))
         IN  StoreLoop([bytes EXCEPT ![base + i + 1] = byte], base, i - 1,
                       start_byte, Shr(new, 8), Shr(mask, 8))

\* the Integer/Enum setter, val already `as u32`
IntEnumSetter(bytes, base, f, val) ==
    LET mask == SetterMask(f)
        new == Shl(val, f.start_bit) \cap mask
    IN  StoreLoop(bytes, base, f.end_byte, f.start_byte, new, mask)

\* `val as u32` for the argument of a setter
ValAsU32(f, val) ==
    IF f.kind = "Enum" THEN EnumAsU32(val) ELSE AsBits(val, U32Bits)


(***************************************************************************)
(* State.                                                                  *)
(*   decl        the annotated struct handed to #[overlay]: its fields     *)
(*   idx         the field the macro's loop is at                          *)
(*   last_byte   the macro's running maximum of the end bytes              *)
(*   getters     the accessor pairs generated so far                       *)
(*   status      "expanding", "done" (code emitted) or "panic"             *)
(*   byte_count  BYTE_LEN of the emitted type                              *)
(*   bytes       the caller's storage                                      *)
(*   view        the typed view a cast returned: where it starts in the    *)
(*               storage, its type, and whether it is a &mut               *)
(*   call, ret   the last accessor call and what it returned               *)
(*   pre         the storage as it was before the last call                *)
(*   stack       the outer views a nested view was projected from, with    *)
(*               the field projected (the borrows the view holds)          *)
(***************************************************************************)
VARIABLES decl, idx, last_byte, getters, status, byte_count,
          bytes, view, call, ret, pre, stack

macro_vars == <<decl, idx, last_byte, getters, status, byte_count>>
run_vars == <<bytes, view, call, ret, pre, stack>>
vars == <<decl, idx, last_byte, getters, status, byte_count,
          bytes, view, call, ret, pre, stack>>

Max(a, b) == IF a >= b THEN a ELSE b

NoView == [state |-> "none", base |-> 0, mut |-> FALSE,
           ty |-> [fields |-> <<>>, BYTE_LEN |-> 0]]
NoCall == [op |-> "none", field |-> 0, arg |-> {}]
Unit == [tag |-> "Unit", val |-> {}]

\* The state in which the macro is invoked on the struct d.
MacroInit(d) ==
    /\ decl = d
    /\ idx = 1
    /\ last_byte = 0
    /\ getters = <<>>
    /\ status = "expanding"
    /\ byte_count = 0
    /\ bytes = <<>>
    /\ view = NoView
    /\ call = NoCall
    /\ ret = Unit
    /\ pre = <<>>
    /\ stack = <<>>

\* One iteration of `for field in fields`.
ExpandStep ==
    /\ status = "expanding"
    /\ idx <= Len(decl)
    /\ LET d == decl[idx]
           r == ExpandField(d)
       IN  IF r.panic
           THEN /\ status' = "panic"
                /\ UNCHANGED <<idx, last_byte, getters>>
           ELSE /\ last_byte' = Max(last_byte, end_inclusive(d.byte))
                /\ getters' = Append(getters, r)
                /\ idx' = idx + 1
                /\ UNCHANGED status
    /\ UNCHANGED <<decl, byte_count>>
    /\ UNCHANGED run_vars

\* After the loop: byte_count = last_byte + 1 and the type is emitted.
Emit ==
    /\ status = "expanding"
    /\ idx > Len(decl)
    /\ byte_count' = last_byte + 1
    /\ status' = "done"
    /\ UNCHANGED <<decl, idx, last_byte, getters>>
    /\ UNCHANGED run_vars

\* The emitted type: its accessors and its BYTE_LEN.
EmittedType == [fields |-> getters, BYTE_LEN |-> byte_count]

\* Cast with the length check off by one (`<=` for `<`)
CastOffByOne(ty, b, base, mut) ==
    IF Len(b) <= ty.BYTE_LEN
    THEN [state |-> "err", base |-> 0, mut |-> mut, ty |-> ty]
    ELSE [state |-> "ok", base |-> base, mut |-> mut, ty |-> ty]

\* <T as Overlay>::overlay / overlay_mut on the slice b
Cast(ty, b, base, mut) ==
    IF Len(b) < ty.BYTE_LEN
    THEN [state |-> "err", base |-> 0, mut |-> mut, ty |-> ty]
    ELSE [state |-> "ok", base |-> base, mut |-> mut, ty |-> ty]

\* The caller casts its buffer b: overlay(&b) or overlay_mut(&mut b).
overlay(b, mut) ==
    /\ status = "done"
    /\ view.state = "none"
    /\ bytes' = b
    /\ pre' = b
    /\ view' = Cast(EmittedType, b, 0, mut)
    /\ call' = [op |-> "overlay", field |-> 0, arg |-> {}]
    /\ ret' = Unit
    /\ UNCHANGED stack
    /\ UNCHANGED macro_vars

\* A getter of the view is called.
Getter(i) ==
    /\ view.state = "ok"
    /\ i \in 1 .. Len(view.ty.fields)
    /\ LET f == view.ty.fields[i]
       IN  /\ f.kind \in {"Integer", "Enum"}
           /\ ret' = IF f.kind = "Enum" THEN EnumGetter(bytes, view.base, f)
                     ELSE IntegerGetter(bytes, view.base, f)
    /\ call' = [op |-> "get", field |-> i, arg |-> {}]
    /\ pre' = bytes
    /\ UNCHANGED <<bytes, view, stack>>
    /\ UNCHANGED macro_vars

\* A setter of the (mutable) view is called with val.
Setter(i, val) ==
    /\ view.state = "ok"
    /\ view.mut
    /\ i \in 1 .. Len(view.ty.fields)
    /\ LET f == view.ty.fields[i]
       IN  /\ f.kind \in {"Integer", "Enum"}
           /\ bytes' = IntEnumSetter(bytes, view.base, f, ValAsU32(f, val))
    /\ call' = [op |-> "set", field |-> i, arg |-> val]
    /\ ret' = Unit
    /\ pre' = bytes
    /\ UNCHANGED <<view, stack>>
    /\ UNCHANGED macro_vars

(***************************************************************************)
(* Inputs.                                                                 *)
(***************************************************************************)
Field(byte, bits, nested, ty) ==
    [byte |-> byte, bits |-> bits, nested |-> nested, ty |-> ty]

\* u32::from_be_bytes
FromBeBytes(b) ==
    Shl(ByteAsU32(b[1]), 24) \cup Shl(ByteAsU32(b[2]), 16)
        \cup Shl(ByteAsU32(b[3]), 8) \cup ByteAsU32(b[4])

\* byte patterns the caller's buffers are filled with (repeated every 4):
\* the bytes of the awkward_offsets_and_overlap test and their complement,
\* so that every bit of the storage starts as 0 and as 1
Patterns == {<<87, 133, 255, 248>>, <<168, 122, 0, 7>>}

Buffer(p, n) == [i \in 1 .. n |-> p[((i - 1) % 4) + 1]]

\* values handed to the integer setters, before narrowing to the field type
TestValues == {{}, U32Pos, FromBeBytes(<<241, 179, 199, 217>>)}

\* the values of the logical type of field f
Values(f) ==
    IF f.kind = "Enum" THEN {"X", "Y", "Z"}
    ELSE {AsBits(v, TyBits(f.ty)) : v \in TestValues}

\* byte spans the 32-bit accumulator holds
SpanLens == 1 .. (U32Bits \div 8)

\* the unsigned integer type as wide as a span of n bytes
UnsignedFor(n) == IF n = 1 THEN "u8" ELSE IF n = 2 THEN "u16" ELSE "u32"

\* the bits of an attribute: none (w = FALSE) or s..=e
BitsArg(w, s, e) == IF w THEN RangeIncl(s, e) ELSE NoBits

\* The macro is invoked on a struct of one Integer or Enumerated field:
\* every span of 1..4 bytes at the explored offsets, with no bits or with
\* any bits s..=e below 32.
Init ==
    \E sb \in 0 .. MaxStartByte, n \in SpanLens, w \in BOOLEAN,
       s \in U32Pos, e \in U32Pos, en \in BOOLEAN :
        /\ ~w => (s = 0 /\ e = 0)
        /\ MacroInit(<<Field(RangeIncl(sb, sb + n - 1), BitsArg(w, s, e),
                             FALSE, IF en THEN "E" ELSE UnsignedFor(n))>>)

Next ==
    \/ ExpandStep
    \/ Emit
    \/ \E p \in Patterns, m \in BOOLEAN :
          overlay(Buffer(p, byte_count + Slack), m)
    \/ \E i \in 1 .. Len(view.ty.fields) : Getter(i)
    \/ \E i \in 1 .. Len(view.ty.fields) :
          \E val \in Values(view.ty.fields[i]) : Setter(i, val)

Spec == Init /\ [][Next]_vars


(***************************************************************************)
(* Nested views, as_bytes() and new().                                     *)
(***************************************************************************)
\* The whole macro run on the struct d, for a type that is used as the
\* type of a nested field: the loop over the fields, then byte_count.
RECURSIVE ExpandLoop(_, _, _, _)
ExpandLoop(d, i, lb, acc) ==
    IF i > Len(d) THEN [fields |-> acc, BYTE_LEN |-> lb + 1]
    ELSE LET r == ExpandField(d[i])
         IN  IF r.panic THEN [fields |-> <<>>, BYTE_LEN |-> 0]
             ELSE ExpandLoop(d, i + 1, Max(lb, end_inclusive(d[i].byte)),
                             Append(acc, r))

Expand(d) == ExpandLoop(d, 1, 0, <<>>)

\* struct Inner of the nested_struct test
InnerDecl ==
    <<Field(RangeIncl(0, 1), Range(0, 16), FALSE, "u16"),
      Field(Single(2), NoBits, FALSE, "u8")>>

\* struct Outer of the nested_struct test, its nested field at s..=s+n-1
OuterDecl(s, n, inner) ==
    <<Field(Single(0), NoBits, FALSE, "u8"),
      Field(RangeIncl(s, s + n - 1), NoBits, TRUE, inner)>>

\* struct ReadCapacity10Response of the u32_example test
ReadCapacityDecl ==
    <<Field(RangeIncl(0, 3), NoBits, FALSE, "u32"),
      Field(RangeIncl(4, 7), NoBits, FALSE, "u32")>>

\* struct Abc of the enum_getters_setters test
EnumAbcDecl ==
    <<Field(Single(0), NoBits, FALSE, "E"),
      Field(Single(1), RangeIncl(2, 4), FALSE, "E"),
      Field(Single(2), RangeIncl(0, 7), FALSE, "u8")>>

\* the emitted type a nested field's type name stands for
NestedType(name) ==
    CASE name = "Inner" -> Expand(InnerDecl)

\* the slice self.0[start_byte..=end_byte] of the view v
SpanSlice(b, v, f) ==
    SubSeq(b, v.base + f.start_byte + 1, v.base + f.end_byte + 1)

\* NestedCast on the outer array instead of the slice of the field's span
NestedCastNoOffset(b, v, f, mut) ==
    Cast(NestedType(f.ty), SpanSlice(b, v, f), v.base, mut)

\* The Struct accessors: overlay / overlay_mut on the slice of the field's
\* span; the view starts where the slice starts.
NestedCast(b, v, f, mut) ==
    Cast(NestedType(f.ty), SpanSlice(b, v, f), v.base + f.start_byte, mut)

\* field() or field_mut() of a nested field is called; .unwrap() panics
\* when the cast fails.
Nested(i, mut) ==
    /\ view.state = "ok"
    /\ mut => view.mut
    /\ i \in 1 .. Len(view.ty.fields)
    /\ view.ty.fields[i].kind = "Struct"
    /\ LET c == NestedCast(bytes, view, view.ty.fields[i], mut)
       IN  IF c.state = "err"
           THEN /\ view' = [view EXCEPT !.state = "panic"]
                /\ UNCHANGED stack
           ELSE /\ view' = c
                /\ stack' = Append(stack, [view |-> view, field |-> i])
    /\ call' = [op |-> "nested", field |-> i, arg |-> {}]
    /\ ret' = Unit
    /\ pre' = bytes
    /\ UNCHANGED bytes
    /\ UNCHANGED macro_vars

\* The borrow of a nested view ends: the outer view is usable again.
Release ==
    /\ view.state = "ok"
    /\ stack # <<>>
    /\ view' = stack[Len(stack)].view
    /\ stack' = SubSeq(stack, 1, Len(stack) - 1)
    /\ call' = [op |-> "release", field |-> 0, arg |-> {}]
    /\ ret' = Unit
    /\ pre' = bytes
    /\ UNCHANGED bytes
    /\ UNCHANGED macro_vars

\* &self.0 of the view v
AsBytes(b, v) == SubSeq(b, v.base + 1, v.base + v.ty.BYTE_LEN)

\* as_bytes() is called.
as_bytes ==
    /\ view.state = "ok"
    /\ ret' = [tag |-> "Bytes", val |-> AsBytes(bytes, view)]
    /\ call' = [op |-> "as_bytes", field |-> 0, arg |-> {}]
    /\ pre' = bytes
    /\ UNCHANGED <<bytes, view, stack>>
    /\ UNCHANGED macro_vars

\* new(): a zeroed value of the emitted type, used in place.
new ==
    /\ status = "done"
    /\ view.state = "none"
    /\ bytes' = [i \in 1 .. byte_count |-> 0]
    /\ pre' = bytes'
    /\ view' = [state |-> "ok", base |-> 0, mut |-> TRUE, ty |-> EmittedType]
    /\ call' = [op |-> "new", field |-> 0, arg |-> {}]
    /\ ret' = Unit
    /\ UNCHANGED stack
    /\ UNCHANGED macro_vars

\* The macro is invoked on a struct of the tests; Outer with its nested
\* field at the explored offsets and one byte longer than the nested type.
InitStructs ==
    \/ \E d \in {ReadCapacityDecl, EnumAbcDecl} : MacroInit(d)
    \/ \E s \in 1 .. (1 + MaxStartByte), x \in 0 .. 1 :
          MacroInit(OuterDecl(s, 3 + x, "Inner"))

NextStructs ==
    \/ ExpandStep
    \/ Emit
    \/ new
    \/ \E p \in Patterns, m \in BOOLEAN, n \in 0 .. (byte_count + Slack) :
          overlay(Buffer(p, n), m)
    \/ \E i \in 1 .. Len(view.ty.fields) : Getter(i)
    \/ \E i \in 1 .. Len(view.ty.fields) :
          \E val \in Values(view.ty.fields[i]) : Setter(i, val)
    \/ \E i \in 1 .. Len(view.ty.fields), m \in BOOLEAN : Nested(i, m)
    \/ Release
    \/ as_bytes

SpecStructs == InitStructs /\ [][NextStructs]_vars

(***************************************************************************)
(* The macro alone: which structs it accepts and the length it computes.   *)
(***************************************************************************)
\* byte arguments over the indices 0..MaxByteIndex: single, inclusive and
\* exclusive, the inverted and the empty ones included
ByteArgs ==
    {Single(a) : a \in 0 .. MaxByteIndex}
        \cup {RangeIncl(a, b) : a \in 0 .. MaxByteIndex, b \in 0 .. MaxByteIndex}
        \cup {Range(a, b) : a \in 0 .. MaxByteIndex, b \in 0 .. (MaxByteIndex + 1)}

\* bit indices at and around the byte boundaries
BitPoints == {0, 7, 8, 15, 16}

BitArgs ==
    {Single(a) : a \in BitPoints}
        \cup {RangeIncl(a, b) : a \in BitPoints, b \in BitPoints}
        \cup {Range(a, b) : a \in BitPoints, b \in BitPoints}

\* byte spans at and beyond the 4 bytes of the u32 accumulator
WideSpans == {RangeIncl(0, 3), RangeIncl(0, 4), RangeIncl(1, 8), Range(0, 8)}

\* bits of a field over a wide span: none, or a window of the low 32 bits
WideBits == {NoBits, RangeIncl(0, 31), RangeIncl(5, 27), Range(0, 32)}

\* The macro is invoked on a struct of up to MaxFields u8 fields with byte
\* arguments only, or on a struct of one field of any kind that carries
\* bits, or carries none, or spans 4 bytes and more.
InitMacro ==
    \/ \E n \in 1 .. MaxFields : \E b \in [1 .. n -> ByteArgs] :
          MacroInit([i \in 1 .. n |-> Field(b[i], NoBits, FALSE, "u8")])
    \/ \E byte \in {Single(0), RangeIncl(0, 1)}, bits \in BitArgs,
          nested \in BOOLEAN, ty \in {"u8", "bool", "E", "[u8]"} :
          MacroInit(<<Field(byte, bits, nested, ty)>>)
    \/ \E byte \in ByteArgs, nested \in BOOLEAN,
          ty \in {"bool", "E", "[u8]"} :
          MacroInit(<<Field(byte, NoBits, nested, ty)>>)
    \/ \E byte \in WideSpans, bits \in WideBits, ty \in {"u32", "u64", "E"} :
          MacroInit(<<Field(byte, bits, FALSE, ty)>>)

NextMacro ==
    \/ ExpandStep
    \/ Emit
    \/ new
    \/ as_bytes

SpecMacro == InitMacro /\ [][NextMacro]_vars

(***************************************************************************)
(* What the claims speak of, stated on the storage directly (not through   *)
(* the accumulator arithmetic of the generated code).                      *)
(***************************************************************************)
\* the field of the last accessor call
CalledField == view.ty.fields[call.field]

CalledIntEnum ==
    /\ view.state = "ok"
    /\ call.op \in {"get", "set"}
    /\ CalledField.kind \in {"Integer", "Enum"}

\* bit t of byte b
ByteBit(b, t) == (b \div (2 ^ t)) % 2 = 1

\* Bit j of the big-endian value W of the span of f in the view at base:
\* bit 0 is the least-significant bit of the last byte of the span.
SpanBit(b, base, f, j) ==
    ByteBit(b[base + f.end_byte - (j \div 8) + 1], j % 8)

SpanLen(f) == f.end_byte - f.start_byte + 1

\* the declared window start..=end of f
Window(f) == f.start_bit .. f.end_bit

WindowWidth(f) == f.end_bit - f.start_bit + 1

\* floor(W / 2^start) mod 2^(end-start+1), as the set of its 1 bits
WindowValue(b, base, f) ==
    {j - f.start_bit : j \in {k \in Window(f) : SpanBit(b, base, f, k)}}

\* Storage position (k, t), byte k (from 1) and bit t, lies in the window of f.
InWindow(base, f, k, t) ==
    /\ k - 1 - base \in f.start_byte .. f.end_byte
    /\ 8 * (f.end_byte - (k - 1 - base)) + t \in Window(f)

\* b and c agree on every bit outside the window of f
SameOutsideWindow(b, c, base, f) ==
    /\ Len(b) = Len(c)
    /\ \A k \in 1 .. Len(b) : \A t \in 0 .. 7 :
          InWindow(base, f, k, t) \/ (ByteBit(b[k], t) <=> ByteBit(c[k], t))

\* the raw values of the symbols of E
SymbolOfRaw(r) ==
    CASE r = {} -> "X"
      [] r = {0} -> "Y"
      [] r = {1} -> "Z"
      [] OTHER -> "none"

(***************************************************************************)
(* C1.  Non-interference of the Integer/Enumerated setters: for every      *)
(* accepted layout with a span of 1..4 bytes, every storage content and    *)
(* every value, the setter changes only bits inside the window start..=end *)
(* of the big-endian value of the span; every other bit of the span and    *)
(* every byte outside the span is as before the call.                      *)
(***************************************************************************)
C1_SetterNonInterference ==
    (CalledIntEnum /\ call.op = "set" /\ SpanLen(CalledField) <= 4)
        => SameOutsideWindow(bytes, pre, view.base, CalledField)

\* C1 restricted to the windows whose end bit is above bit 0
C1_NonInterferenceEndAbove0 ==
    (CalledIntEnum /\ call.op = "set" /\ SpanLen(CalledField) <= 4
        /\ CalledField.end_bit > 0)
        => SameOutsideWindow(bytes, pre, view.base, CalledField)

(***************************************************************************)
(* C2.  Round trip with truncation: for every accepted Integer layout      *)
(* (span of 1..4 bytes, type at least as wide as the window), every        *)
(* storage content and every value v of the type, the getter called right  *)
(* after set(v) returns v mod 2^(end-start+1).                             *)
(***************************************************************************)
C2_Applies(c, f) ==
    /\ c.op = "set"
    /\ f.kind = "Integer"
    /\ SpanLen(f) <= 4
    /\ TyBits(f.ty) >= WindowWidth(f)

C2_RoundTrip ==
    [][(/\ view.state = "ok"
        /\ call.op = "set"
        /\ C2_Applies(call, CalledField)
        /\ call'.op = "get"
        /\ call'.field = call.field)
          => ret' = [tag |-> "Int",
                     val |-> AsBits(call.arg, WindowWidth(CalledField))]]_vars

\* C2 restricted to the windows whose end bit is above bit 0
C2_RoundTripEndAbove0 ==
    [][(/\ view.state = "ok"
        /\ call.op = "set"
        /\ C2_Applies(call, CalledField)
        /\ CalledField.end_bit > 0
        /\ call'.op = "get"
        /\ call'.field = call.field)
          => ret' = [tag |-> "Int",
                     val |-> AsBits(call.arg, WindowWidth(CalledField))]]_vars

(***************************************************************************)
(* C3.  Decode extracts exactly the declared window: for every accepted    *)
(* Integer layout over a span of 1..4 bytes and every storage content the  *)
(* getter returns floor(W / 2^start) mod 2^(end-start+1), W the big-endian *)
(* value of the span.                                                      *)
(***************************************************************************)
C3_Applies ==
    /\ CalledIntEnum
    /\ call.op = "get"
    /\ CalledField.kind = "Integer"
    /\ SpanLen(CalledField) <= 4
    /\ TyBits(CalledField.ty) >= WindowWidth(CalledField)

C3_DecodeWindow ==
    C3_Applies
        => ret = [tag |-> "Int",
                  val |-> WindowValue(bytes, view.base, CalledField)]

\* C3 restricted to the windows whose end bit is above bit 0
C3_DecodeWindowEndAbove0 ==
    (C3_Applies /\ CalledField.end_bit > 0)
        => ret = [tag |-> "Int",
                  val |-> WindowValue(bytes, view.base, CalledField)]


(***************************************************************************)
(* C5.  Enumerated decode-then-encode is the identity: for every accepted  *)
(* Enumerated layout and every storage content whose window holds a raw    *)
(* value of the symbolic domain, the getter returns Ok(e) for the symbol e *)
(* of that raw value, and the setter called with e leaves every byte of    *)
(* the storage unchanged.                                                  *)
(***************************************************************************)
CalledEnumGetter ==
    /\ CalledIntEnum
    /\ call.op = "get"
    /\ CalledField.kind = "Enum"

\* the symbol of the raw value the window of the called field holds
WindowSymbol == SymbolOfRaw(WindowValue(bytes, view.base, CalledField))

C5_EnumDecodeEncodeIdentity ==
    (CalledEnumGetter /\ WindowSymbol # "none")
        => /\ ret = [tag |-> "Ok", val |-> WindowSymbol]
           /\ IntEnumSetter(bytes, view.base, CalledField,
                            ValAsU32(CalledField, WindowSymbol)) = bytes

\* C5 restricted to the windows whose end bit is above bit 0
C5_IdentityEndAbove0 ==
    (CalledEnumGetter /\ WindowSymbol # "none" /\ CalledField.end_bit > 0)
        => /\ ret = [tag |-> "Ok", val |-> WindowSymbol]
           /\ IntEnumSetter(bytes, view.base, CalledField,
                            ValAsU32(CalledField, WindowSymbol)) = bytes

(***************************************************************************)
(* C6.  Enumerated rejection: for every accepted Enumerated layout and     *)
(* every storage content, the getter's outcome depends only on the bits of *)
(* the window start..=end: Err when that raw value is outside the symbolic *)
(* domain, Ok(symbol) when it is inside, and the storage is unchanged in   *)
(* both cases.                                                             *)
(***************************************************************************)
C6_Outcome ==
    /\ bytes = pre
    /\ IF WindowSymbol = "none"
       THEN ret.tag = "Err"
       ELSE ret = [tag |-> "Ok", val |-> WindowSymbol]

C6_EnumRejection == CalledEnumGetter => C6_Outcome

\* C6 restricted to the windows whose end bit is above bit 0
C6_RejectionEndAbove0 ==
    (CalledEnumGetter /\ CalledField.end_bit > 0) => C6_Outcome


(***************************************************************************)
(* C4.  Cast length check: overlay and overlay_mut return                  *)
(* Err(InsufficientLength) if and only if the buffer is shorter than       *)
(* BYTE_LEN; on failure the buffer is not accessed, and on success (also   *)
(* for a longer buffer) the view is the first BYTE_LEN bytes of the same   *)
(* storage.                                                                *)
(***************************************************************************)
\* every accessor of the view v addresses bytes of its first BYTE_LEN bytes
AddressesPrefix(v) ==
    \A i \in 1 .. Len(v.ty.fields) :
        /\ 0 <= v.ty.fields[i].start_byte
        /\ v.ty.fields[i].end_byte < v.ty.BYTE_LEN

C4_CastLengthCheck ==
    (view.state \in {"ok", "err"} /\ stack = <<>> /\ call.op # "new")
        => /\ view.state = "err" <=> Len(bytes) < byte_count
           /\ view.state = "err" => (bytes = pre /\ call.op = "overlay")
           /\ view.state = "ok" =>
                /\ view.base = 0
                /\ view.ty.BYTE_LEN = byte_count
                /\ AddressesPrefix(view)
                /\ AsBytes(bytes, view) = SubSeq(bytes, 1, byte_count)

\* a cast rejected for a buffer one byte short of the record
C4_Witness ==
    /\ view.state = "err"
    /\ Len(bytes) = byte_count - 1
    /\ Len(bytes) > 0

(***************************************************************************)
(* C7.  Nested aliasing: the view a nested accessor returns for a field    *)
(* with span s..=e starts at outer byte s, with no copy: its getters read  *)
(* the outer bytes from s on, and its setters change only outer bytes in   *)
(* s..=e, the new values being visible through the outer as_bytes().       *)
(***************************************************************************)
\* the outer view of the nested view, and the nested field projected
OuterView == stack[Len(stack)].view
NestedField == OuterView.ty.fields[stack[Len(stack)].field]

\* the bytes s..=e of the outer as_bytes(), for the storage b
OuterSpan(b) ==
    SubSeq(AsBytes(b, OuterView), NestedField.start_byte + 1,
           NestedField.end_byte + 1)

\* storage positions (from 1) of the outer bytes s..=e
NestedPositions ==
    (OuterView.base + NestedField.start_byte + 1) ..
        (OuterView.base + NestedField.end_byte + 1)

C7_NestedAliasing ==
    (stack # <<>> /\ view.state = "ok")
        => /\ view.base = OuterView.base + NestedField.start_byte
           /\ (call.op = "get" /\ CalledField.kind = "Integer")
                => ret = IntegerGetter(OuterSpan(bytes), 0, CalledField)
           /\ (call.op = "set" /\ CalledField.kind = "Integer")
                => /\ Len(bytes) = Len(pre)
                   /\ \A k \in 1 .. Len(bytes) :
                        k \in NestedPositions \/ bytes[k] = pre[k]
                   /\ OuterSpan(bytes) =
                        IntEnumSetter(OuterSpan(pre), 0, CalledField,
                                      ValAsU32(CalledField, call.arg))

\* a setter called through a nested mutable view changed the storage
C7_Witness ==
    /\ stack # <<>>
    /\ view.state = "ok"
    /\ call.op = "set"
    /\ bytes # pre

(***************************************************************************)
(* C9.  Full-width big-endian field: for a 4-byte Integer field declared   *)
(* with a byte range only (window 0..=31), the setter stores every 32-bit  *)
(* value as its 4 big-endian bytes, the getter returns the full 32-bit     *)
(* value, and the rest of the record (an adjacent 4-byte field) is left    *)
(* unchanged.                                                              *)
(***************************************************************************)
\* the called field is a 4-byte Integer field declared without bits
CalledFullWidth ==
    /\ CalledIntEnum
    /\ stack = <<>>
    /\ CalledField.kind = "Integer"
    /\ decl[call.field].bits = NoBits
    /\ SpanLen(CalledField) = 4

\* byte k (0 the most significant) of the 32-bit value v
BeByte(v, k) == BitsToInt({j - 8 * (3 - k) : j \in v \cap ((8 * (3 - k)) .. (8 * (3 - k) + 7))}, 7)

\* all 32 bits of the big-endian value of the span of f
FullValue(b, base, f) == {j \in 0 .. 31 : SpanBit(b, base, f, j)}

C9_FullWidthBigEndian ==
    CalledFullWidth
        => /\ call.op = "get"
                => ret = [tag |-> "Int",
                          val |-> FullValue(bytes, view.base, CalledField)]
           /\ call.op = "set"
                => /\ Len(bytes) = Len(pre)
                   /\ \A k \in 0 .. 3 :
                        Self0(bytes, view.base, CalledField.start_byte + k)
                            = BeByte(call.arg, k)
                   /\ \A i \in 0 .. (Len(bytes) - 1) :
                        i \in (view.base + CalledField.start_byte) ..
                                (view.base + CalledField.end_byte)
                            \/ bytes[i + 1] = pre[i + 1]

\* a value with bit 31 set was stored in a full-width field whose adjacent
\* field holds something else
C9_Witness ==
    /\ CalledFullWidth
    /\ call.op = "set"
    /\ 31 \in call.arg
    /\ bytes # pre
    /\ Len(getters) = 2
    /\ FullValue(bytes, view.base, getters[1])
          # FullValue(bytes, view.base, getters[2])


(***************************************************************************)
(* C8.  Record length: for every accepted field list, BYTE_LEN and the     *)
(* length of as_bytes() equal 1 + the maximum inclusive end byte index     *)
(* over all declared fields (a single index n ends at n, a..=b at b, a..b  *)
(* at b-1), whatever the order of the fields.                              *)
(***************************************************************************)
\* the inclusive end byte a byte argument declares
DeclaredEnd(r) ==
    IF r.tag = "Range" THEN r.end - 1
    ELSE IF r.tag = "RangeIncl" THEN r.end
    ELSE r.start

DeclaredEnds(d) == {DeclaredEnd(d[i].byte) : i \in 1 .. Len(d)}

MaxOf(S) == CHOOSE m \in S : \A x \in S : x <= m

Reversed(d) == [i \in 1 .. Len(d) |-> d[Len(d) + 1 - i]]

C8_RecordLength ==
    (status = "done" /\ Len(decl) > 0)
        => /\ byte_count = 1 + MaxOf(DeclaredEnds(decl))
           /\ Expand(Reversed(decl)).BYTE_LEN = byte_count
           /\ call.op = "as_bytes" => Len(ret.val) = byte_count

\* a struct whose first field ends last, declared with an exclusive range,
\* and whose as_bytes() was taken
C8_Witness ==
    /\ status = "done"
    /\ Len(decl) >= 2
    /\ decl[1].byte.tag = "Range"
    /\ \A i \in 2 .. Len(decl) :
          DeclaredEnd(decl[i].byte) < DeclaredEnd(decl[1].byte)
    /\ call.op = "as_bytes"

(***************************************************************************)
(* C10.  The macro rejects every Bool, Integer or Enumerated field whose   *)
(* bit range has a start or an end bit index greater than                  *)
(* 8*len(byte_range) - 1: no such field gets accessors generated.          *)
(***************************************************************************)
\* the bits of the attribute d lie inside its byte span
BitsInsideSpan(d) ==
    /\ start(d.bits) <= 8 * len(d.byte) - 1
    /\ end_inclusive(d.bits) <= 8 * len(d.byte) - 1

C10_BitRangeInsideByteRange ==
    \A i \in 1 .. Len(getters) :
        (decl[i].bits # NoBits
            /\ getters[i].kind \in {"Bool", "Integer", "Enum"})
          => BitsInsideSpan(decl[i])

\* C10 for the Integer and Enumerated fields alone
C10_IntEnumBitRangeInside ==
    \A i \in 1 .. Len(getters) :
        (decl[i].bits # NoBits /\ getters[i].kind \in {"Integer", "Enum"})
          => BitsInsideSpan(decl[i])

(***************************************************************************)
(* C11.  The macro rejects a Bool field whose bit range spans more than    *)
(* one bit, and a Bool field whose byte range spans more than one byte:    *)
(* every Bool field that gets accessors has a bit range of one bit (or     *)
(* none) and a byte range of one byte.                                     *)
(***************************************************************************)
\* field i of the struct got Bool accessors
AcceptedBool(i) == i \in 1 .. Len(getters) /\ getters[i].kind = "Bool"

C11_BoolRange ==
    \A i \in 1 .. Len(getters) :
        AcceptedBool(i)
          => /\ decl[i].bits # NoBits => len(decl[i].bits) = 1
             /\ len(decl[i].byte) = 1

\* C11 for the bit range alone
C11_BoolSingleBit ==
    \A i \in 1 .. Len(getters) :
        AcceptedBool(i) => (decl[i].bits # NoBits => len(decl[i].bits) = 1)

(***************************************************************************)
(* Nested fields whose span is shorter than, as long as and longer than    *)
(* the nested type.                                                        *)
(***************************************************************************)
\* span lengths of the nested field of Outer: Inner is 3 bytes long
NestedSpanLens == 2 .. 4

InitNested ==
    \E s \in 1 .. (1 + MaxStartByte), n \in NestedSpanLens :
        MacroInit(OuterDecl(s, n, "Inner"))

SpecNested == InitNested /\ [][NextStructs]_vars

(***************************************************************************)
(* C12.  A Nested field whose byte span is shorter or longer than the      *)
(* byte length of the nested type is rejected by the macro, so that no     *)
(* nested accessor of a successfully cast view fails when it is called.    *)
(***************************************************************************)
C12_NestedSizeChecked ==
    /\ \A i \in 1 .. Len(getters) :
          getters[i].kind = "Struct"
            => SpanLen(getters[i]) = NestedType(getters[i].ty).BYTE_LEN
    /\ view.state # "panic"

\* a nested accessor fails only for a span shorter than the nested type
C12_PanicsOnlyWhenShort ==
    view.state = "panic"
        => /\ call.op = "nested"
           /\ SpanLen(CalledField) < NestedType(CalledField.ty).BYTE_LEN

(***************************************************************************)
(* C13.  The macro rejects every Nested field and every byte-array field   *)
(* that carries a bit range: such a field gets accessors only when it is   *)
(* declared with a byte range alone.                                       *)
(***************************************************************************)
\* field i of the struct is declared nested or with a type [u8; N]
NestedOrByteArray(i) ==
    decl[i].nested \/ match_type(decl[i].ty) = "ByteArray"

C13_NoBitsOnNestedOrBytes ==
    \A i \in 1 .. Len(decl) :
        (NestedOrByteArray(i) /\ decl[i].bits # NoBits)
          => (Len(getters) < i /\ status # "done")

\* the macro panicked at a byte-array field whose byte range and bit range
\* are both well-formed
C13_Witness ==
    /\ status = "panic"
    /\ ~decl[idx].nested
    /\ match_type(decl[idx].ty) = "ByteArray"
    /\ decl[idx].bits # NoBits
    /\ assert_range_valid(decl[idx].byte)
    /\ assert_range_valid(decl[idx].bits)

\* a nested field and a byte-array field declared with a byte range alone
\* got their accessors
C13_AcceptedWithoutBits ==
    (status = "done" /\ Len(decl) = 1 /\ decl[1].bits = NoBits
        /\ NestedOrByteArray(1))
      => getters[1].kind \in {"Struct", "ByteArray"}

(***************************************************************************)
(* C14.  Field-width ceiling: the macro rejects an Integer field whose     *)
(* byte range spans more bytes than the 32-bit accumulator holds (4): no   *)
(* such field gets accessors.                                              *)
(***************************************************************************)
C14_IntegerSpanCeiling ==
    \A i \in 1 .. Len(getters) :
        getters[i].kind = "Integer"
          => SpanLen(getters[i]) <= U32Bits \div 8

\* the spans the macro refuses are those of an Enumerated field with no
\* representation type: Integer spans are not limited
C14_OnlyEnumSpansLimited ==
    (status = "panic" /\ decl[idx].byte \in WideSpans)
        => /\ match_type(decl[idx].ty) = "Enum"
           /\ len(decl[idx].byte) \notin {1, 2, 4, 8}

(***************************************************************************)
(* The Bool and the byte-array accessors.                                  *)
(*                                                                         *)
(* A shift of a u8 by 8 or more overflows: with overflow checks (a debug   *)
(* build) the accessor panics, without them (a release build) the shift    *)
(* amount wraps modulo 8.  Which of the two happens is the build's choice: *)
(* the accessors take it as the parameter oc (overflow checks).            *)
(***************************************************************************)
\* bits of a u8, the type of `byte` and of the literal 1 in the Bool accessors
U8Bits == 8

\* bits of an i32, the type `bit_value` falls back to
I32Bits == 32

\* the Bool getter: (byte >> start_bit) & 1 != 0
BoolGetterBody(b, base, f, oc) ==
    LET byte == ByteAsU32(Self0(b, base, f.start_byte))
    IN  IF f.start_bit >= U8Bits /\ oc
        THEN [tag |-> "Panic", val |-> FALSE]
        ELSE [tag |-> "Bool", val |-> 0 \in Shr(byte, f.start_bit % U8Bits)]

\* the Bool setter:
\*   self.0[start_byte] &= !(1 << start_bit);
\*   self.0[start_byte] |= (bit_value << start_bit) as u8;
\* the bytes after the call, or <<>> where the first shift panics
BoolSetterBody(b, base, f, val, oc) ==
    LET byte == ByteAsU32(Self0(b, base, f.start_byte))
        one == AsBits(Shl({0}, f.start_bit % U8Bits), U8Bits)
        bit_value == IF val THEN {0} ELSE {}
        shifted == AsBits(Shl(bit_value, f.start_bit % I32Bits), U8Bits)
        cleared == byte \ one
    IN  IF f.start_bit >= U8Bits /\ oc
        THEN <<>>
        ELSE [b EXCEPT ![base + f.start_byte + 1] = AsU8(cleared \cup shifted)]

\* N of a type [u8; N]
ArrayLen(ty) ==
    CASE ty = "[u8; 1]" -> 1
      [] ty = "[u8; 2]" -> 2
      [] ty = "[u8; 3]" -> 3

\* the byte-array getter: self.0[start_byte..=end_byte].try_into().unwrap(),
\* a panic where the slice is not N bytes long
ByteArrayGetterBody(b, v, f) ==
    IF Len(SpanSlice(b, v, f)) # ArrayLen(f.ty)
    THEN [tag |-> "Panic", val |-> <<>>]
    ELSE [tag |-> "Bytes", val |-> SpanSlice(b, v, f)]

\* the byte-array setter: self.0[start_byte..=end_byte].copy_from_slice(arr),
\* <<>> where the lengths differ and copy_from_slice panics
ByteArraySetterBody(b, v, f, arr) ==
    IF Len(SpanSlice(b, v, f)) # Len(arr)
    THEN <<>>
    ELSE [k \in 1 .. Len(b) |->
            IF k - 1 - v.base \in f.start_byte .. f.end_byte
            THEN arr[k - v.base - f.start_byte]
            ELSE b[k]]

\* The getter of a Bool field is called.
BoolGetter(i, oc) ==
    /\ view.state = "ok"
    /\ i \in 1 .. Len(view.ty.fields)
    /\ view.ty.fields[i].kind = "Bool"
    /\ LET r == BoolGetterBody(bytes, view.base, view.ty.fields[i], oc)
       IN  /\ ret' = r
           /\ view' = IF r.tag = "Panic" THEN [view EXCEPT !.state = "panic"]
                      ELSE view
    /\ call' = [op |-> "get", field |-> i, arg |-> {}]
    /\ pre' = bytes
    /\ UNCHANGED <<bytes, stack>>
    /\ UNCHANGED macro_vars

\* The setter of a Bool field of the (mutable) view is called with val.
BoolSetter(i, val, oc) ==
    /\ view.state = "ok"
    /\ view.mut
    /\ i \in 1 .. Len(view.ty.fields)
    /\ view.ty.fields[i].kind = "Bool"
    /\ LET r == BoolSetterBody(bytes, view.base, view.ty.fields[i], val, oc)
       IN  IF r = <<>>
           THEN /\ view' = [view EXCEPT !.state = "panic"]
                /\ UNCHANGED bytes
           ELSE /\ bytes' = r
                /\ UNCHANGED view
    /\ call' = [op |-> "set", field |-> i, arg |-> val]
    /\ ret' = Unit
    /\ pre' = bytes
    /\ UNCHANGED stack
    /\ UNCHANGED macro_vars

\* The getter of a byte-array field is called.
ByteArrayGetter(i) ==
    /\ view.state = "ok"
    /\ i \in 1 .. Len(view.ty.fields)
    /\ view.ty.fields[i].kind = "ByteArray"
    /\ LET r == ByteArrayGetterBody(bytes, view, view.ty.fields[i])
       IN  /\ ret' = r
           /\ view' = IF r.tag = "Panic" THEN [view EXCEPT !.state = "panic"]
                      ELSE view
    /\ call' = [op |-> "get", field |-> i, arg |-> {}]
    /\ pre' = bytes
    /\ UNCHANGED <<bytes, stack>>
    /\ UNCHANGED macro_vars

\* The setter of a byte-array field of the (mutable) view is called with
\* the array arr, of the length of the field's type.
ByteArraySetter(i, arr) ==
    /\ view.state = "ok"
    /\ view.mut
    /\ i \in 1 .. Len(view.ty.fields)
    /\ view.ty.fields[i].kind = "ByteArray"
    /\ Len(arr) = ArrayLen(view.ty.fields[i].ty)
    /\ LET r == ByteArraySetterBody(bytes, view, view.ty.fields[i], arr)
       IN  IF r = <<>>
           THEN /\ view' = [view EXCEPT !.state = "panic"]
                /\ UNCHANGED bytes
           ELSE /\ bytes' = r
                /\ UNCHANGED view
    /\ call' = [op |-> "set", field |-> i, arg |-> arr]
    /\ ret' = Unit
    /\ pre' = bytes
    /\ UNCHANGED stack
    /\ UNCHANGED macro_vars

(***************************************************************************)
(* Records of Bool, byte-array, Integer and Enumerated fields.             *)
(***************************************************************************)
\* struct Abc of the byte_array_getters test, its array field of type
\* [u8; N] over the n bytes 1..=n
ByteArrayDecl(n, ty) ==
    <<Field(Single(0), RangeIncl(0, 7), FALSE, "u8"),
      Field(RangeIncl(1, n), NoBits, FALSE, ty),
      Field(Single(n + 1), RangeIncl(0, 7), FALSE, "u8")>>

\* a struct of one Bool field
BoolDecl(byte, bits) == <<Field(byte, bits, FALSE, "bool")>>

\* bit arguments of a Bool field: none, or one bit, the first bit beyond
\* the byte included
BoolBits == {NoBits} \cup {Single(k) : k \in 0 .. U8Bits}

\* fields over the bytes 0..=1 that share bytes with one another
PairFields ==
    <<Field(RangeIncl(0, 1), RangeIncl(5, 11), FALSE, "u16"),
      Field(Single(1), RangeIncl(0, 4), FALSE, "u8"),
      Field(Single(1), RangeIncl(0, 0), FALSE, "u8"),
      Field(Single(1), RangeIncl(1, 7), FALSE, "u8"),
      Field(Single(0), Single(4), FALSE, "bool"),
      Field(Single(1), NoBits, FALSE, "bool"),
      Field(Single(1), RangeIncl(2, 4), FALSE, "E"),
      Field(Single(0), RangeIncl(5, 7), FALSE, "u8"),
      Field(Single(1), Single(8), FALSE, "bool")>>

\* the arrays handed to the setter of a field of type [u8; n]
ArrayValues(n) ==
    {[k \in 1 .. n |-> <<99, 3, 255>>[k]], [k \in 1 .. n |-> 0]}

\* the arrays of the type of field f
ArraysOf(f) == IF f.kind = "ByteArray" THEN ArrayValues(ArrayLen(f.ty)) ELSE {}

InitFields ==
    \/ \E n \in 1 .. 3, ty \in {"[u8; 1]", "[u8; 2]", "[u8; 3]"} :
          MacroInit(ByteArrayDecl(n, ty))
    \/ \E b \in 0 .. MaxStartByte, long \in BOOLEAN, bits \in BoolBits :
          MacroInit(BoolDecl(IF long THEN RangeIncl(b, b + 1) ELSE Single(b),
                             bits))
    \/ \E i \in 1 .. Len(PairFields), j \in 1 .. Len(PairFields) :
          i < j /\ MacroInit(<<PairFields[i], PairFields[j]>>)

NextFields ==
    \/ ExpandStep
    \/ Emit
    \/ new
    \/ \E p \in Patterns, m \in BOOLEAN :
          overlay(Buffer(p, byte_count + Slack), m)
    \/ \E i \in 1 .. Len(view.ty.fields) : Getter(i)
    \/ \E i \in 1 .. Len(view.ty.fields) :
          \E val \in Values(view.ty.fields[i]) : Setter(i, val)
    \/ \E i \in 1 .. Len(view.ty.fields), oc \in BOOLEAN : BoolGetter(i, oc)
    \/ \E i \in 1 .. Len(view.ty.fields), val \in BOOLEAN, oc \in BOOLEAN :
          BoolSetter(i, val, oc)
    \/ \E i \in 1 .. Len(view.ty.fields) : ByteArrayGetter(i)
    \/ \E i \in 1 .. Len(view.ty.fields) :
          \E arr \in ArraysOf(view.ty.fields[i]) : ByteArraySetter(i, arr)
    \/ as_bytes

SpecFields == InitFields /\ [][NextFields]_vars

(***************************************************************************)
(* C15.  Byte-array fields: for every accepted field of type [u8; N] with  *)
(* byte range s..=e and every successfully cast view, the getter returns   *)
(* exactly the bytes s..=e of the storage in index order, the setter       *)
(* replaces exactly those bytes with the given array and leaves every      *)
(* other byte unchanged, and neither call fails.                           *)
(***************************************************************************)
\* the last call was an accessor of a byte-array field
CalledByteArray ==
    /\ view.state \in {"ok", "panic"}
    /\ call.op \in {"get", "set"}
    /\ CalledField.kind = "ByteArray"

\* the bytes s..=e of the view, read off the storage b one by one
SpanBytes(b, base, f) ==
    [k \in 1 .. SpanLen(f) |-> b[base + f.start_byte + k]]

C15_Outcome ==
    /\ view.state = "ok"
    /\ call.op = "get"
         => /\ ret = [tag |-> "Bytes",
                      val |-> SpanBytes(bytes, view.base, CalledField)]
            /\ bytes = pre
    /\ call.op = "set"
         => /\ Len(bytes) = Len(pre)
            /\ SpanBytes(bytes, view.base, CalledField) = call.arg
            /\ \A k \in 1 .. Len(bytes) :
                  k - 1 - view.base
                      \in CalledField.start_byte .. CalledField.end_byte
                    \/ bytes[k] = pre[k]

C15_ByteSliceAccessors == CalledByteArray => C15_Outcome

\* C15 for the fields whose array type is as long as their byte range
C15_MatchingLength ==
    (CalledByteArray /\ ArrayLen(CalledField.ty) = SpanLen(CalledField))
        => C15_Outcome

(***************************************************************************)
(* C16.  Bool accessors: for every accepted Bool field at byte b and bit k *)
(* (k = 0 when no bit is given) and every storage content, the getter      *)
(* returns true iff bit k of byte b is 1; the setter makes bit k the given *)
(* value and changes no other bit of byte b and no other byte, so that the *)
(* getter called after set(x) returns x.                                   *)
(***************************************************************************)
\* the last call was an accessor of a Bool field
CalledBool ==
    /\ view.state \in {"ok", "panic"}
    /\ call.op \in {"get", "set"}
    /\ CalledField.kind = "Bool"

\* the storage position (from 1) of byte b of the called field
CalledBoolByte == view.base + CalledField.start_byte + 1

C16_Outcome ==
    /\ view.state = "ok"
    /\ call.op = "get"
         => /\ ret = [tag |-> "Bool",
                      val |-> ByteBit(bytes[CalledBoolByte],
                                      CalledField.start_bit)]
            /\ bytes = pre
    /\ call.op = "set"
         => /\ Len(bytes) = Len(pre)
            /\ \A p \in 1 .. Len(bytes) : \A t \in 0 .. 7 :
                  IF p = CalledBoolByte /\ t = CalledField.start_bit
                  THEN ByteBit(bytes[p], t) = call.arg
                  ELSE ByteBit(bytes[p], t) = ByteBit(pre[p], t)
            /\ \A oc \in BOOLEAN :
                  BoolGetterBody(bytes, view.base, CalledField, oc)
                      = [tag |-> "Bool", val |-> call.arg]

C16_BoolAccessors == CalledBool => C16_Outcome

\* C16 for the fields whose bit is a bit of the byte
C16_BitInsideByte ==
    (CalledBool /\ CalledField.start_bit < U8Bits) => C16_Outcome

(***************************************************************************)
(* The earlier macro (src/lib.rs): fields are declared with                *)
(* #[bit_byte(end_bit, start_bit, start_byte, end_byte)], the emitted type *)
(* is cast from an array of exactly its length.                            *)
(***************************************************************************)
bit_byte(end_bit, start_bit, start_byte, end_byte, ty) ==
    [end_bit |-> end_bit, start_bit |-> start_bit,
     start_byte |-> start_byte, end_byte |-> end_byte, ty |-> ty]

\* One iteration of the loop over the fields: the two asserts, then the
\* accessor pair, the Bool one for a field of type bool.
LegacyExpandField(d) ==
    IF ~(d.start_bit <= d.end_bit)
    THEN Panic("start bit must not be greater than end bit")
    ELSE IF ~(d.start_byte <= d.end_byte)
    THEN Panic("start byte must not be greater than end byte")
    ELSE Accessor(IF d.ty = "bool" THEN "Bool" ELSE "Integer",
                  d.start_byte, d.end_byte, d.start_bit, d.end_bit, d.ty, 0)

\* the non-bool getter:
\*   value &= !0_u32 << start_bit;
\*   if end_bit > 0 { value &= !0_u32 >> (32 - end_bit); }
\*   (value >> start_bit) as _
LegacyGetterBody(b, base, f) ==
    LET value == Accumulate(b, base, f.start_byte, f.end_byte, {})
        low == value \cap Shl(U32Pos, f.start_bit)
        masked == IF f.end_bit > 0
                  THEN low \cap Shr(U32Pos, 32 - f.end_bit)
                  ELSE low
    IN  AsBits(Shr(masked, f.start_bit), TyBits(f.ty))

\* the non-bool setter's mask
LegacySetterMask(f) ==
    LET mask == Shl(U32Pos, f.start_bit)
    IN  IF f.end_bit > 0
        THEN mask \cap Shr(U32Pos, 32 - f.end_bit - 1)
        ELSE mask

\* self.0[i] = new as u8; new >>= 8, for i in (start_byte..=end_byte).rev()
RECURSIVE LegacyStoreLoop(_, _, _, _, _)
LegacyStoreLoop(b, base, i, start_byte, new_) ==
    IF i < start_byte THEN b
    ELSE LegacyStoreLoop([b EXCEPT ![base + i + 1] = AsU8(new_)], base, i - 1,
                         start_byte, Shr(new_, 8))

\* the non-bool setter, val already `as u32`:
\*   let orig = self.field();
\*   let mut new = ((val as u32) << start_bit) & mask;
\*   new |= orig as u32 & !mask;
LegacySetterBody(b, base, f, val) ==
    LET mask == LegacySetterMask(f)
        orig == LegacyGetterBody(b, base, f)
        new_ == (Shl(val, f.start_bit) \cap mask) \cup (orig \cap Not32(mask))
    IN  LegacyStoreLoop(b, base, f.end_byte, f.start_byte, new_)

\* One iteration of `for field in fields` of the earlier macro.
LegacyExpandStep ==
    /\ status = "expanding"
    /\ idx <= Len(decl)
    /\ LET d == decl[idx]
           r == LegacyExpandField(d)
       IN  IF r.panic
           THEN /\ status' = "panic"
                /\ UNCHANGED <<idx, last_byte, getters>>
           ELSE /\ last_byte' = Max(last_byte, d.end_byte)
                /\ getters' = Append(getters, r)
                /\ idx' = idx + 1
                /\ UNCHANGED status
    /\ UNCHANGED <<decl, byte_count>>
    /\ UNCHANGED run_vars

\* After the loop: byte_count = last_byte + 1 and the type is emitted.
LegacyEmit ==
    /\ status = "expanding"
    /\ idx > Len(decl)
    /\ byte_count' = last_byte + 1
    /\ status' = "done"
    /\ UNCHANGED <<decl, idx, last_byte, getters>>
    /\ UNCHANGED run_vars

\* overlay(&[u8; byte_count]) / overlay_mut(&mut [u8; byte_count]): the
\* array type fixes the length, the cast cannot fail.
LegacyOverlay(b, mut) ==
    /\ status = "done"
    /\ view.state = "none"
    /\ Len(b) = byte_count
    /\ bytes' = b
    /\ pre' = b
    /\ view' = [state |-> "ok", base |-> 0, mut |-> mut, ty |-> EmittedType]
    /\ call' = [op |-> "overlay", field |-> 0, arg |-> {}]
    /\ ret' = Unit
    /\ UNCHANGED stack
    /\ UNCHANGED macro_vars

\* A non-bool getter of the view is called.
LegacyGetter(i) ==
    /\ view.state = "ok"
    /\ i \in 1 .. Len(view.ty.fields)
    /\ view.ty.fields[i].kind = "Integer"
    /\ ret' = [tag |-> "Int",
               val |-> LegacyGetterBody(bytes, view.base, view.ty.fields[i])]
    /\ call' = [op |-> "get", field |-> i, arg |-> {}]
    /\ pre' = bytes
    /\ UNCHANGED <<bytes, view, stack>>
    /\ UNCHANGED macro_vars

\* A non-bool setter of the (mutable) view is called with val.
LegacySetter(i, val) ==
    /\ view.state = "ok"
    /\ view.mut
    /\ i \in 1 .. Len(view.ty.fields)
    /\ view.ty.fields[i].kind = "Integer"
    /\ bytes' = LegacySetterBody(bytes, view.base, view.ty.fields[i],
                                 AsBits(val, U32Bits))
    /\ call' = [op |-> "set", field |-> i, arg |-> val]
    /\ ret' = Unit
    /\ pre' = bytes
    /\ UNCHANGED <<view, stack>>
    /\ UNCHANGED macro_vars

\* struct InquiryCommand of the tests of the earlier macro
LegacyInquiryDecl ==
    <<bit_byte(7, 0, 0, 0, "u8"),
      bit_byte(0, 0, 1, 1, "bool"),
      bit_byte(7, 1, 2, 2, "u8"),
      bit_byte(13, 0, 3, 4, "u16")>>

\* bit indices at and around the byte boundaries, and those of the tests
LegacyBitPoints == {0, 1, 6, 7, 8, 13, 14, 15, 16, 23, 24, 30, 31}

\* The earlier macro is invoked on InquiryCommand, or on a struct of one
\* unsigned field over 1..4 bytes with bits inside the span, or with the
\* bits or the bytes the wrong way round.
InitLegacy ==
    \/ MacroInit(LegacyInquiryDecl)
    \/ \E sb \in 0 .. MaxStartByte, n \in SpanLens,
          s \in LegacyBitPoints, e \in LegacyBitPoints :
          /\ s <= e
          /\ e <= 8 * n - 1
          /\ MacroInit(<<bit_byte(e, s, sb, sb + n - 1, UnsignedFor(n))>>)
    \/ MacroInit(<<bit_byte(0, 1, 0, 0, "u8")>>)
    \/ MacroInit(<<bit_byte(7, 0, 1, 0, "u8")>>)

NextLegacy ==
    \/ LegacyExpandStep
    \/ LegacyEmit
    \/ \E p \in Patterns, m \in BOOLEAN : LegacyOverlay(Buffer(p, byte_count), m)
    \/ \E i \in 1 .. Len(view.ty.fields) : LegacyGetter(i)
    \/ \E i \in 1 .. Len(view.ty.fields) :
          \E val \in Values(view.ty.fields[i]) : LegacySetter(i, val)
    \/ \E i \in 1 .. Len(view.ty.fields), oc \in BOOLEAN : BoolGetter(i, oc)
    \/ \E i \in 1 .. Len(view.ty.fields), val \in BOOLEAN, oc \in BOOLEAN :
          BoolSetter(i, val, oc)

SpecLegacy == InitLegacy /\ [][NextLegacy]_vars

(***************************************************************************)
(* C17.  Setter of the earlier macro: for every non-bool field and every   *)
(* previous storage content, set_field(v) writes v into bits               *)
(* start_bit..=end_bit of the big-endian value of bytes                    *)
(* start_byte..=end_byte and leaves every other bit of that span and every *)
(* other byte unchanged.                                                   *)
(***************************************************************************)
\* the last call was the setter of a non-bool field
CalledNonBoolSetter ==
    /\ view.state = "ok"
    /\ call.op = "set"
    /\ CalledField.kind = "Integer"

\* the window of the called field holds the value set, cut to its width
WindowHoldsArg ==
    WindowValue(bytes, view.base, CalledField)
        = AsBits(call.arg, WindowWidth(CalledField))

C17_LegacySetterFrame ==
    CalledNonBoolSetter
        => /\ WindowHoldsArg
           /\ SameOutsideWindow(bytes, pre, view.base, CalledField)

\* what the setter does keep: the window holds the value, and the bytes
\* outside the span are unchanged
C17_LegacySetterWritesWindow ==
    CalledNonBoolSetter
        => /\ WindowHoldsArg
           /\ Len(bytes) = Len(pre)
           /\ \A k \in 1 .. Len(bytes) :
                 k - 1 - view.base
                     \in CalledField.start_byte .. CalledField.end_byte
                   \/ bytes[k] = pre[k]

(***************************************************************************)
(* C18.  Getter of the earlier macro: for every non-bool field and every   *)
(* storage content the getter returns bits start_bit..=end_bit (end bit    *)
(* included, the window of the setter's mask) of the big-endian value of   *)
(* the span, shifted down to bit 0, so that a field (7, 0, b, b) is the    *)
(* whole byte b and the getter after set_field(v) returns v cut to the     *)
(* window.                                                                 *)
(***************************************************************************)
\* the last call was the getter of a non-bool field
CalledNonBoolGetter ==
    /\ view.state = "ok"
    /\ call.op = "get"
    /\ CalledField.kind = "Integer"

C18_LegacyGetterWindow ==
    /\ CalledNonBoolGetter
         => ret = [tag |-> "Int",
                   val |-> WindowValue(bytes, view.base, CalledField)]
    /\ CalledNonBoolSetter
         => LegacyGetterBody(bytes, view.base, CalledField)
               = AsBits(call.arg, WindowWidth(CalledField))

\* bits start_bit..end_bit of the span, the end bit not included
WindowBelowEnd(b, base, f) ==
    {j - f.start_bit :
        j \in {k \in f.start_bit .. (f.end_bit - 1) : SpanBit(b, base, f, k)}}

\* what the getter does return: the bits below the end bit; for a field
\* with end bit 0 (and so start bit 0) the whole span
C18_LegacyGetterEndExcluded ==
    CalledNonBoolGetter
        => ret = [tag |-> "Int",
                  val |-> IF CalledField.end_bit > 0
                          THEN WindowBelowEnd(bytes, view.base, CalledField)
                          ELSE {j \in 0 .. (8 * SpanLen(CalledField) - 1) :
                                  SpanBit(bytes, view.base, CalledField, j)}]

(***************************************************************************)
(* C19.  Setters on disjoint windows commute: for any two fields A and B   *)
(* of one record (Integer, Enumerated or Bool) whose windows share no bit  *)
(* of the storage, all values x and y and every storage content, set_A(x)  *)
(* then set_B(y) leaves the storage as set_B(y) then set_A(x) does, and in *)
(* it get_A() returns x cut to the window of A and get_B() returns y cut   *)
(* to the window of B.                                                     *)
(***************************************************************************)
\* the bits of the record, as <<byte, bit>>, that the window of f declares
Footprint(f) ==
    IF f.kind = "Bool" THEN {<<f.start_byte, f.start_bit>>}
    ELSE {<<f.end_byte - (j \div 8), j % 8>> : j \in Window(f)}

\* the setter and the getter of f applied to the storage b of the view; a
\* shift that overflows wraps
SetField(b, f, v) ==
    IF f.kind = "Bool" THEN BoolSetterBody(b, view.base, f, v, FALSE)
    ELSE IntEnumSetter(b, view.base, f, ValAsU32(f, v))

GetField(b, f) ==
    CASE f.kind = "Bool" -> BoolGetterBody(b, view.base, f, FALSE)
      [] f.kind = "Enum" -> EnumGetter(b, view.base, f)
      [] OTHER -> IntegerGetter(b, view.base, f)

\* what the getter of f returns for the value v cut to the window of f
CutToWindow(f, v) ==
    CASE f.kind = "Bool" -> [tag |-> "Bool", val |-> v]
      [] f.kind = "Enum" ->
            [tag |-> "Ok",
             val |-> SymbolOfRaw(AsBits(EnumAsU32(v), WindowWidth(f)))]
      [] OTHER -> [tag |-> "Int", val |-> AsBits(v, WindowWidth(f))]

\* set_A(x) was the last call and set_B(y) is this one, A and B two fields
\* of the kinds of the claim with disjoint windows
TwoDisjointSets(a, b) ==
    /\ view.state = "ok"
    /\ call.op = "set"
    /\ call.field = a
    /\ call'.op = "set"
    /\ call'.field = b
    /\ a # b
    /\ view.ty.fields[a].kind \in {"Integer", "Enum", "Bool"}
    /\ view.ty.fields[b].kind \in {"Integer", "Enum", "Bool"}
    /\ Footprint(view.ty.fields[a]) \cap Footprint(view.ty.fields[b]) = {}

\* the storage after both calls is that of the other order, and holds both
\* values
CommutedOutcome(a, b) ==
    LET fa == view.ty.fields[a]
        fb == view.ty.fields[b]
    IN  /\ view'.state = "ok"
        /\ bytes' = SetField(SetField(pre, fb, call'.arg), fa, call.arg)
        /\ GetField(bytes', fa) = CutToWindow(fa, call.arg)
        /\ GetField(bytes', fb) = CutToWindow(fb, call'.arg)

C19_DisjointSettersCommute ==
    [][\A a, b \in 1 .. Len(view.ty.fields) :
          TwoDisjointSets(a, b) => CommutedOutcome(a, b)]_vars

\* the field has neither an Integer/Enumerated window that ends at bit 0
\* nor a Bool bit beyond the byte
SoundWindow(f) ==
    IF f.kind = "Bool" THEN f.start_bit < U8Bits ELSE f.end_bit > 0

\* C19 for the fields with such windows
C19_CommuteSoundWindows ==
    [][\A a, b \in 1 .. Len(view.ty.fields) :
          (TwoDisjointSets(a, b) /\ SoundWindow(view.ty.fields[a])
              /\ SoundWindow(view.ty.fields[b]))
            => CommutedOutcome(a, b)]_vars

=============================================================================
